---- MODULE Spec2Model ----
(***************************************************************************)
(* FurnitureBusinessOptimization.optimize_business_strategy               *)
(* (task4_furniture_business_optimization.py): the mixed-integer program   *)
(* it builds, the solver call, and the mapping of the solver's variable    *)
(* values into the results dictionary.                                     *)
(*                                                                         *)
(* Numbers the solver hands back are floats.  A float f is represented by  *)
(* the record Float(f * Scale); None and NaN stand for Python's None and   *)
(* float('nan').                                                           *)
(***************************************************************************)
EXTENDS Integers, Sequences, FiniteSets, TLC

VARIABLES params, pc, prob, status, varValue, results

vars == <<params, pc, prob, status, varValue, results>>

-----------------------------------------------------------------------------
(* Bounds of the model *)

\* resolution of the float representation: 1/Scale
Scale == 1000
\* largest distance (in 1/Scale) of a solver value from the integer it stands for
IntTol == 1
\* largest value enumerated for a variable that no constraint bounds
MaxFree == 2
\* largest quantities tried when quantifying over assignments
BoxUnits == 51
BoxProd == 5

-----------------------------------------------------------------------------
(* Python values *)

None == [tag |-> "None"]
NaN == [tag |-> "nan"]
Float(n) == [tag |-> "float", val |-> n]

Min(S) == CHOOSE x \in S : \A y \in S : x <= y
Max(S) == CHOOSE x \in S : \A y \in S : y <= x

\* truth value of a float or None, as `bool(x)` and `x if c else y` take it
Truthy(x) == IF x.tag = "None" THEN FALSE ELSE IF x.tag = "nan" THEN TRUE ELSE x.val # 0

\* int(x) raises TypeError on None and ValueError on nan
IntRaises(x) == x.tag = "None" \/ x.tag = "nan"

\* int(x) on a float: truncation toward zero
PyInt(x) == IF x.val >= 0 THEN x.val \div Scale ELSE -((-x.val) \div Scale)

-----------------------------------------------------------------------------
(* The object's attributes after __init__ *)

ProductNames == {"dining_table", "bookshelf", "office_chair"}

DefaultCapacity == [wood_hours |-> 1200, design_hours |-> 400, budget |-> 150000]

DefaultProducts ==
  [dining_table |-> [profit_per_unit |-> 350, wood_hours_per_unit |-> 8,
                     material_cost |-> 250, design_complexity |-> 15],
   bookshelf    |-> [profit_per_unit |-> 250, wood_hours_per_unit |-> 6,
                     material_cost |-> 180, design_complexity |-> 10],
   office_chair |-> [profit_per_unit |-> 200, wood_hours_per_unit |-> 4,
                     material_cost |-> 150, design_complexity |-> 8]]

DefaultNewProduct ==
  [design_hours_required |-> 100, prototype_cost |-> 5000,
   estimated_profit_per_unit |-> 275, wood_hours_per_unit |-> 5,
   material_cost_per_unit |-> 200]

DefaultParams ==
  [manufacturing_capacity |-> DefaultCapacity,
   products |-> DefaultProducts,
   new_product_design |-> DefaultNewProduct]

\* the literal of the gating constraint
MaxUnitsIfApproved == 50

-----------------------------------------------------------------------------
(* Parameter sets the runs are drawn from: the defaults and variations of   *)
(* them with non-negative per-unit figures                                  *)

WoodHoursSet == {-1, 0, 20, 1200}
DesignHoursSet == {-1, 0, 130, 400}
BudgetSet == {-1, 0, 6000, 150000}

CapacitySpace ==
  { [wood_hours |-> w, design_hours |-> d, budget |-> b] :
      w \in WoodHoursSet, d \in DesignHoursSet, b \in BudgetSet }

FreeChair(profit) ==
  [DefaultProducts EXCEPT !.office_chair =
     [profit_per_unit |-> profit, wood_hours_per_unit |-> 0,
      material_cost |-> 0, design_complexity |-> 0]]

ProductsSpace == {DefaultProducts, FreeChair(200), FreeChair(0)}

NewProductSpace ==
  {DefaultNewProduct,
   [DefaultNewProduct EXCEPT !.prototype_cost = 0],
   [DefaultNewProduct EXCEPT !.prototype_cost = 0, !.design_hours_required = 0]}

CatalogSpace ==
  { <<DefaultProducts, n>> : n \in NewProductSpace } \cup
  { <<p, DefaultNewProduct>> : p \in ProductsSpace }

ParamSpace ==
  { [manufacturing_capacity |-> c, products |-> k[1], new_product_design |-> k[2]] :
      c \in CapacitySpace, k \in CatalogSpace }

-----------------------------------------------------------------------------
(* The LpProblem *)

DesignVar == "Design_New_Product"
UnitsVar == "New_Product_Units"

PVar(name) ==
  CASE name = "dining_table" -> "Produce_dining_table"
    [] name = "bookshelf"    -> "Produce_bookshelf"
    [] name = "office_chair" -> "Produce_office_chair"

ProductVars == { PVar(n) : n \in ProductNames }
VarSet == ProductVars \cup {DesignVar, UnitsVar}

NameOf(v) == CHOOSE n \in ProductNames : PVar(n) = v

\* LpVariable(..., lowBound=0, cat='Integer') and LpVariable(..., cat='Binary')
Variables ==
  [v \in VarSet |->
     IF v = DesignVar THEN [lowBound |-> 0, upBound |-> {1}]
                      ELSE [lowBound |-> 0, upBound |-> {}]]

\* the design cost charged per new-product unit instead of once
ObjectiveCostPerUnit(p) ==
  [v \in VarSet |->
     IF v = DesignVar THEN 0
     ELSE IF v = UnitsVar THEN p.new_product_design.estimated_profit_per_unit
                               - p.new_product_design.prototype_cost
     ELSE p.products[NameOf(v)].profit_per_unit]

Objective(p) ==
  [v \in VarSet |->
     IF v = DesignVar THEN -p.new_product_design.prototype_cost
     ELSE IF v = UnitsVar THEN p.new_product_design.estimated_profit_per_unit
     ELSE p.products[NameOf(v)].profit_per_unit]

\* a negative capacity taken as 0
WoodConstraintClamped(p) ==
  [name |-> "Woodworking_Hours_Constraint",
   coef |-> [v \in VarSet |->
               IF v = DesignVar THEN 0
               ELSE IF v = UnitsVar THEN p.new_product_design.wood_hours_per_unit
               ELSE p.products[NameOf(v)].wood_hours_per_unit],
   rhs |-> IF p.manufacturing_capacity.wood_hours < 0 THEN 0
           ELSE p.manufacturing_capacity.wood_hours]

WoodConstraint(p) ==
  [name |-> "Woodworking_Hours_Constraint",
   coef |-> [v \in VarSet |->
               IF v = DesignVar THEN 0
               ELSE IF v = UnitsVar THEN p.new_product_design.wood_hours_per_unit
               ELSE p.products[NameOf(v)].wood_hours_per_unit],
   rhs |-> p.manufacturing_capacity.wood_hours]

\* the design hours of the approval left out
DesignConstraintNoApproval(p) ==
  [name |-> "Design_Hours_Constraint",
   coef |-> [v \in VarSet |->
               IF v \in {DesignVar, UnitsVar} THEN 0
               ELSE p.products[NameOf(v)].design_complexity],
   rhs |-> p.manufacturing_capacity.design_hours]

DesignConstraint(p) ==
  [name |-> "Design_Hours_Constraint",
   coef |-> [v \in VarSet |->
               IF v = DesignVar THEN p.new_product_design.design_hours_required
               ELSE IF v = UnitsVar THEN 0
               ELSE p.products[NameOf(v)].design_complexity],
   rhs |-> p.manufacturing_capacity.design_hours]

\* the material cost of the existing products left out
BudgetConstraintNoMaterial(p) ==
  [name |-> "Budget_Constraint",
   coef |-> [v \in VarSet |->
               IF v = DesignVar THEN p.new_product_design.prototype_cost
               ELSE IF v = UnitsVar THEN p.new_product_design.material_cost_per_unit
               ELSE 0],
   rhs |-> p.manufacturing_capacity.budget]

BudgetConstraint(p) ==
  [name |-> "Budget_Constraint",
   coef |-> [v \in VarSet |->
               IF v = DesignVar THEN p.new_product_design.prototype_cost
               ELSE IF v = UnitsVar THEN p.new_product_design.material_cost_per_unit
               ELSE p.products[NameOf(v)].material_cost],
   rhs |-> p.manufacturing_capacity.budget]

\* new_product_units <= 50, whatever the approval
GatingConstraintUnlinked ==
  [name |-> "_C1",
   coef |-> [v \in VarSet |-> IF v = UnitsVar THEN 1 ELSE 0],
   rhs |-> MaxUnitsIfApproved]

\* new_product_units <= 50 * design_new_product
GatingConstraint ==
  [name |-> "_C1",
   coef |-> [v \in VarSet |->
               IF v = DesignVar THEN -MaxUnitsIfApproved
               ELSE IF v = UnitsVar THEN 1 ELSE 0],
   rhs |-> 0]

\* LpMinimize
SenseMin(S) == Min(S)

\* LpMaximize: the better of a set of objective values
Sense(S) == Max(S)

BuildModel(p) ==
  [objective |-> Objective(p),
   constraints |-> <<WoodConstraint(p), DesignConstraint(p),
                     BudgetConstraint(p), GatingConstraint>>]

NoModel == [objective |-> [v \in VarSet |-> 0], constraints |-> <<>>]

-----------------------------------------------------------------------------
(* Values of the model *)

Dot(coef, a) ==
  coef[DesignVar] * a[DesignVar] + coef[UnitsVar] * a[UnitsVar]
  + coef["Produce_dining_table"] * a["Produce_dining_table"]
  + coef["Produce_bookshelf"] * a["Produce_bookshelf"]
  + coef["Produce_office_chair"] * a["Produce_office_chair"]

Satisfies(m, a) ==
  \A c \in 1..Len(m.constraints) : Dot(m.constraints[c].coef, a) <= m.constraints[c].rhs

-----------------------------------------------------------------------------
(* prob.solve(): the solver is a black box that returns an optimal          *)
(* assignment of a feasible bounded model.  The feasible assignments are    *)
(* enumerated variable by variable, each within the range the constraints   *)
(* leave it.                                                                *)

VarOrder == <<DesignVar, "Produce_dining_table", "Produce_bookshelf",
              "Produce_office_chair", UnitsVar>>

\* no constraint and no bound limits v from above
IsFree(m, v) ==
  /\ Variables[v].upBound = {}
  /\ \A c \in 1..Len(m.constraints) : m.constraints[c].coef[v] <= 0

\* the largest value the residual right-hand sides res leave to v, the
\* variables after v in VarOrder having no negative coefficient
UpperBound(m, v, res) ==
  LET caps == { res[c] \div m.constraints[c].coef[v] :
                  c \in { d \in 1..Len(res) : m.constraints[d].coef[v] > 0 } }
              \cup Variables[v].upBound
  IN IF caps = {} THEN MaxFree ELSE Min(caps)

Residual(m, v, res, k) ==
  [c \in 1..Len(res) |-> res[c] - m.constraints[c].coef[v] * k]

Infeasible == [ok |-> FALSE, val |-> 0, args |-> {}]

\* the last variable: the objective is linear in it, so the best values are
\* at an end of its range (anywhere in it when its coefficient is 0)
Last(m, res) ==
  LET v == VarOrder[Len(VarOrder)]
      lo == Variables[v].lowBound
      ub == UpperBound(m, v, res)
      w == m.objective[v]
      K == IF w = 0 THEN lo..ub
           ELSE { k \in {lo, ub} : w * k = Sense({w * lo, w * ub}) }
      Kf == { k \in K : \A c \in 1..Len(res) : Residual(m, v, res, k)[c] >= 0 }
  IN IF lo > ub \/ Kf = {} THEN Infeasible
     ELSE [ok |-> TRUE, val |-> w * (CHOOSE k \in Kf : TRUE),
           args |-> { <<k>> : k \in Kf }]

\* the best objective value of variables i.. of VarOrder within res, and
\* the assignments of those variables that attain it
Combine(w, ch) ==
  LET cand == { c \in ch : c[2].ok }
      best == Sense({ c[2].val + w * c[1] : c \in cand })
  IN IF cand = {} THEN Infeasible
     ELSE [ok |-> TRUE, val |-> best,
           args |-> UNION { { <<c[1]>> \o s : s \in c[2].args } :
                            c \in { d \in cand : d[2].val + w * d[1] = best } }]

RECURSIVE Search(_, _, _)
Search(m, i, res) ==
  IF i = Len(VarOrder) THEN Last(m, res)
  ELSE LET v == VarOrder[i]
       IN Combine(m.objective[v],
                  { <<k, Search(m, i + 1, Residual(m, v, res, k))>> :
                      k \in Variables[v].lowBound .. UpperBound(m, v, res) })

Assignment(s) == [v \in VarSet |-> s[CHOOSE i \in 1..Len(VarOrder) : VarOrder[i] = v]]

Outcome(m) ==
  LET r == Search(m, 1, [c \in 1..Len(m.constraints) |-> m.constraints[c].rhs])
  IN IF ~r.ok THEN [status |-> -1, optima |-> {}]
     ELSE IF \E v \in VarSet : IsFree(m, v) /\ Sense({0, m.objective[v]}) # 0
     THEN [status |-> -2, optima |-> {}]
     ELSE [status |-> 1, optima |-> { Assignment(s) : s \in r.args }]

ModelSpace == { BuildModel(p) : p \in ParamSpace }

SolveTable == { <<m, Outcome(m)>> : m \in ModelSpace }

Solved(m) == (CHOOSE t \in SolveTable : t[1] = m)[2]

\* pulp.LpStatus
LpStatus(s) ==
  CASE s = 0 -> "Not Solved"
    [] s = 1 -> "Optimal"
    [] s = -1 -> "Infeasible"
    [] s = -2 -> "Unbounded"
    [] s = -3 -> "Undefined"

\* pulp.value(prob.objective): None when a variable has no value
ObjectiveValue(m, val) ==
  IF \E v \in VarSet : val[v].tag = "None" THEN None
  ELSE IF \E v \in VarSet : val[v].tag = "nan" THEN NaN
  ELSE Float(Dot(m.objective, [v \in VarSet |-> val[v].val]))

-----------------------------------------------------------------------------
(* The results dictionary *)

\* the quantity taken from the variable whatever the approval
NewProductUnitsUnclamped(val) ==
  IF val[UnitsVar].tag = "float" THEN PyInt(val[UnitsVar]) ELSE 0

NewProductUnits(val) ==
  IF Truthy(val[DesignVar]) THEN PyInt(val[UnitsVar]) ELSE 0

ProductionPlan(val) == [n \in ProductNames |-> PyInt(val[PVar(n)])]

\* an int() of the mapping raises
MappingRaises(val) ==
  \/ Truthy(val[DesignVar]) /\ IntRaises(val[UnitsVar])
  \/ \E n \in ProductNames : IntRaises(val[PVar(n)])

Results(m, s, val) ==
  [status |-> LpStatus(s),
   total_profit |-> ObjectiveValue(m, val),
   production_plan |-> ProductionPlan(val),
   new_product_design |-> Truthy(val[DesignVar]),
   new_product_units |-> NewProductUnits(val)]

NoResults == [status |-> "none"]
NoValues == [v \in VarSet |-> None]

-----------------------------------------------------------------------------
(* The run: __init__, then optimize_business_strategy step by step *)

Init ==
  /\ params \in ParamSpace
  /\ pc = "start"
  /\ prob = NoModel
  /\ status = 0
  /\ varValue = NoValues
  /\ results = NoResults

Build ==
  /\ pc = "start"
  /\ prob' = BuildModel(params)
  /\ pc' = "built"
  /\ UNCHANGED <<params, status, varValue, results>>

\* values a solver can leave in the variables of a model it did not solve
Leftover == {Float(0), Float(2 * Scale + Scale \div 2)}
LeftoverAny == Leftover \cup {None, NaN}

\* the solver returns integral values (the default solver on these models)
Solve ==
  /\ pc = "built"
  /\ LET o == Solved(prob)
     IN /\ status' = o.status
        /\ IF o.status = 1
           THEN \E a \in o.optima : varValue' = [v \in VarSet |-> Float(a[v] * Scale)]
           ELSE varValue' \in [VarSet -> Leftover]
  /\ pc' = "solved"
  /\ UNCHANGED <<params, prob, results>>

\* any solver of the MILP contract: values within the integrality tolerance,
\* and a run that may end without a solution
SolveAny ==
  /\ pc = "built"
  /\ LET o == Solved(prob)
     IN \/ /\ o.status = 1
           /\ status' = 1
           /\ \E a \in o.optima, e \in [VarSet -> {-IntTol, 0, IntTol}] :
                 varValue' = [v \in VarSet |-> Float(a[v] * Scale + e[v])]
        \/ /\ status' \in {o.status, 0, -3} \ {1}
           /\ varValue' \in [VarSet -> LeftoverAny]
  /\ pc' = "solved"
  /\ UNCHANGED <<params, prob, results>>

Extract ==
  /\ pc = "solved"
  /\ IF MappingRaises(varValue)
     THEN pc' = "raised" /\ results' = results
     ELSE pc' = "done" /\ results' = Results(prob, status, varValue)
  /\ UNCHANGED <<params, prob, status, varValue>>

Next == Build \/ Solve \/ Extract

NextAny == Build \/ SolveAny \/ Extract

Spec == Init /\ [][Next]_vars

SpecAny == Init /\ [][NextAny]_vars

-----------------------------------------------------------------------------
(* What the claims quantify over *)

\* assignments within the variables' bounds, up to BoxProd and BoxUnits
Box ==
  { [v \in VarSet |->
       IF v = DesignVar THEN d
       ELSE IF v = UnitsVar THEN u
       ELSE IF v = "Produce_dining_table" THEN x
       ELSE IF v = "Produce_bookshelf" THEN y ELSE z] :
      d \in 0..1, u \in 0..BoxUnits, x \in 0..BoxProd, y \in 0..BoxProd, z \in 0..BoxProd }

ZeroPlan == [n \in ProductNames |-> 0]

\* all that optimize_business_strategy can return for p when the solver
\* returns integral values and the model has an optimum
OptimalRuns(p) ==
  LET m == BuildModel(p)
      o == Solved(m)
  IN IF o.status # 1 THEN {}
     ELSE { Results(m, 1, [v \in VarSet |-> Float(a[v] * Scale)]) : a \in o.optima }

\* q is p with one capacity made smaller
OneCapacitySmaller(q, p) ==
  /\ q.products = p.products
  /\ q.new_product_design = p.new_product_design
  /\ \E k \in {"wood_hours", "design_hours", "budget"} :
       /\ q.manufacturing_capacity[k] < p.manufacturing_capacity[k]
       /\ \A j \in {"wood_hours", "design_hours", "budget"} \ {k} :
            q.manufacturing_capacity[j] = p.manufacturing_capacity[j]

\* profit of a plan as the business states it: per-unit profits, less the
\* design cost once if the new product is approved
ProfitOf(p, plan, approved, units) ==
  p.products.dining_table.profit_per_unit * plan.dining_table
  + p.products.bookshelf.profit_per_unit * plan.bookshelf
  + p.products.office_chair.profit_per_unit * plan.office_chair
  + p.new_product_design.estimated_profit_per_unit * units
  - (IF approved THEN p.new_product_design.prototype_cost ELSE 0)

PlanOf(a) == [n \in ProductNames |-> a[PVar(n)]]

WoodUsed(p, plan, units) ==
  p.products.dining_table.wood_hours_per_unit * plan.dining_table
  + p.products.bookshelf.wood_hours_per_unit * plan.bookshelf
  + p.products.office_chair.wood_hours_per_unit * plan.office_chair
  + p.new_product_design.wood_hours_per_unit * units

DesignUsed(p, plan, approved) ==
  p.products.dining_table.design_complexity * plan.dining_table
  + p.products.bookshelf.design_complexity * plan.bookshelf
  + p.products.office_chair.design_complexity * plan.office_chair
  + (IF approved THEN p.new_product_design.design_hours_required ELSE 0)

BudgetUsed(p, plan, approved, units) ==
  p.products.dining_table.material_cost * plan.dining_table
  + p.products.bookshelf.material_cost * plan.bookshelf
  + p.products.office_chair.material_cost * plan.office_chair
  + (IF approved THEN p.new_product_design.prototype_cost ELSE 0)
  + p.new_product_design.material_cost_per_unit * units

\* round(x) of a float within IntTol of an integer
Nearest(x) == (x.val + Scale \div 2) \div Scale

AllCapacitiesZero(p) ==
  /\ p.manufacturing_capacity.wood_hours = 0
  /\ p.manufacturing_capacity.design_hours = 0
  /\ p.manufacturing_capacity.budget = 0

SomeCapacityNegative(p) ==
  \/ p.manufacturing_capacity.wood_hours < 0
  \/ p.manufacturing_capacity.design_hours < 0
  \/ p.manufacturing_capacity.budget < 0

\* every product and the approval of the candidate draw on some resource
EverythingCosts(p) ==
  /\ \A n \in ProductNames :
       \/ p.products[n].wood_hours_per_unit > 0
       \/ p.products[n].material_cost > 0
       \/ p.products[n].design_complexity > 0
  /\ \/ p.new_product_design.design_hours_required > 0
     \/ p.new_product_design.prototype_cost > 0

-----------------------------------------------------------------------------
\* C1: every assignment that satisfies all constraints of the built model has
\* new_product_units <= 50 * approve_new_product, hence new_product_units = 0
\* where approve_new_product = 0.
C1_Gating ==
  pc = "built" =>
    \A a \in Box :
      Satisfies(prob, a) =>
        /\ a[UnitsVar] <= MaxUnitsIfApproved * a[DesignVar]
        /\ (a[DesignVar] = 0 => a[UnitsVar] = 0)

C1_Witness ==
  /\ pc = "built"
  /\ \E a \in Box : Satisfies(prob, a) /\ a[DesignVar] = 1 /\ a[UnitsVar] = MaxUnitsIfApproved
  /\ \E a \in Box : Satisfies(prob, a) /\ a[DesignVar] = 0 /\ a["Produce_bookshelf"] > 0
  /\ \E a \in Box : ~Satisfies(prob, a) /\ a[DesignVar] = 0 /\ a[UnitsVar] = 1
                      /\ \A n \in ProductNames : a[PVar(n)] = 0

\* C2: in every returned result, whatever the solver status and the raw
\* variable values, new_product_units is 0 when new_product_design is false.
C2_Clamp ==
  pc = "done" => (~results.new_product_design => results.new_product_units = 0)

C2_Witness ==
  /\ pc = "done"
  /\ ~results.new_product_design
  /\ varValue[UnitsVar] = Float(2 * Scale + Scale \div 2)

\* C3 as claimed: for any parameters whose capacities are all 0 the optimal
\* result has an all-zero production_plan, no approval and total_profit 0.
C3_AnyParameters ==
  (pc = "done" /\ AllCapacitiesZero(params) /\ results.status = "Optimal") =>
    /\ results.production_plan = ZeroPlan
    /\ ~results.new_product_design
    /\ results.total_profit = Float(0)

\* C3 amended: with all capacities 0, and every product and the approval of
\* the candidate drawing on some resource, the run ends Optimal with an
\* all-zero production_plan, no approval, no new-product units and
\* total_profit 0.
C3_ZeroCapacities ==
  (AllCapacitiesZero(params) /\ EverythingCosts(params)) =>
    /\ pc # "raised"
    /\ pc = "done" =>
         /\ results.status = "Optimal"
         /\ results.production_plan = ZeroPlan
         /\ ~results.new_product_design
         /\ results.new_product_units = 0
         /\ results.total_profit = Float(0)

C3_Witness ==
  /\ pc = "done"
  /\ AllCapacitiesZero(params)
  /\ EverythingCosts(params)
  /\ params.new_product_design.prototype_cost = 0
  /\ results.production_plan = ZeroPlan

\* C4: with budget = 0 and every other parameter at its default the result is
\* Optimal with every quantity 0, no approval, new_product_units 0 and
\* total_profit 0.
C4_ZeroBudget ==
  params = [DefaultParams EXCEPT !.manufacturing_capacity.budget = 0] =>
    /\ pc # "raised"
    /\ pc = "done" =>
         /\ results.status = "Optimal"
         /\ results.production_plan = ZeroPlan
         /\ ~results.new_product_design
         /\ results.new_product_units = 0
         /\ results.total_profit = Float(0)

C4_Witness ==
  /\ params = [DefaultParams EXCEPT !.manufacturing_capacity.budget = 0]
  /\ pc = "done"
  /\ results.status = "Optimal"

C6_ZeroedWhenNotOptimal ==
  (pc \in {"done", "raised"} /\ status # 1) =>
    /\ pc = "done"
    /\ results.production_plan = ZeroPlan
    /\ results.new_product_units = 0
    /\ results.total_profit = None

\* C7: a run that is Optimal has a total_profit at least that of every
\* Optimal run on the same parameters with one capacity smaller.
C7_Monotone ==
  (pc = "done" /\ results.status = "Optimal") =>
    \A q \in ParamSpace :
      OneCapacitySmaller(q, params) =>
        \A r \in OptimalRuns(q) : r.total_profit.val <= results.total_profit.val

C7_Witness ==
  /\ pc = "done"
  /\ results.status = "Optimal"
  /\ \E q \in ParamSpace :
       /\ OneCapacitySmaller(q, params)
       /\ \E r \in OptimalRuns(q) :
            /\ r.total_profit.val > 0
            /\ r.total_profit.val < results.total_profit.val

\* C8: the default scenario returns Optimal with total_profit >= 0 and a plan
\* and new-product decision that use no more wood hours, design hours and
\* budget than the capacities.
C8_DefaultScenario ==
  params = DefaultParams =>
    /\ pc # "raised"
    /\ pc = "done" =>
         /\ results.status = "Optimal"
         /\ results.total_profit.val >= 0
         /\ WoodUsed(params, results.production_plan, results.new_product_units)
              <= params.manufacturing_capacity.wood_hours
         /\ DesignUsed(params, results.production_plan, results.new_product_design)
              <= params.manufacturing_capacity.design_hours
         /\ BudgetUsed(params, results.production_plan, results.new_product_design,
                       results.new_product_units)
              <= params.manufacturing_capacity.budget

C8_Witness ==
  /\ params = DefaultParams
  /\ pc = "done"
  /\ results.new_product_design
  /\ results.new_product_units = MaxUnitsIfApproved
  /\ results.production_plan.bookshelf = 30

\* C9: every integer-typed result field is the solver's raw value rounded to
\* the nearest integer: a raw value just below n is reported as n.
C9_RoundedToNearest ==
  (pc = "done" /\ results.status = "Optimal") =>
    /\ \A n \in ProductNames :
         results.production_plan[n] = Nearest(varValue[PVar(n)])
    /\ results.new_product_design =>
         results.new_product_units = Nearest(varValue[UnitsVar])

\* C10: when the status is Optimal, total_profit is the profit of the reported
\* plan, with the design cost charged once if and only if the new product is
\* approved, and no assignment satisfying the constraints has a larger profit.
C10_TotalProfit ==
  (pc = "done" /\ results.status = "Optimal") =>
    /\ results.total_profit =
         Float(Scale * ProfitOf(params, results.production_plan,
                                results.new_product_design, results.new_product_units))
    /\ \A a \in Box :
         Satisfies(prob, a) =>
           Scale * ProfitOf(params, PlanOf(a), a[DesignVar] = 1, a[UnitsVar])
             <= results.total_profit.val

C10_Witness ==
  /\ pc = "done"
  /\ results.status = "Optimal"
  /\ results.new_product_design
  /\ results.new_product_units > 0
  /\ \E n \in ProductNames : results.production_plan[n] > 0
  /\ \E a \in Box :
       /\ Satisfies(prob, a)
       /\ a[DesignVar] = 0
       /\ ProfitOf(params, PlanOf(a), FALSE, 0) > 0

====
